---- MODULE Spec2Model ----
(***************************************************************************)
(* A model of cofounder's ProjectAnalyzer                                  *)
(* (api/src/analyzers/project_analyzer.py).                                *)
(*                                                                         *)
(* The file tree is a sequence of entries in directory traversal order.    *)
(* Text is kept as character strings, so that the substring tests, strip,  *)
(* split and lower of the source are computed and not assumed.  A Python   *)
(* dict is an association list in insertion order.  The standard library's *)
(* parsers (ast.parse, json.load) are not modelled: an entry carries the   *)
(* syntax tree / JSON value its text parses to, or the fact that parsing   *)
(* fails.                                                                  *)
(***************************************************************************)
EXTENDS Integers, Sequences, FiniteSets, TLC

VARIABLES tree, self, inst, ncalls, done, last, history

vars == <<tree, self, inst, ncalls, done, last, history>>

(***************************************************************************)
(* Bounds of the exploration.                                              *)
(***************************************************************************)
MaxFiles == 3
MaxMixed == 2
MaxCalls == 2
MaxInstances == 2

(***************************************************************************)
(* Python str operations.                                                  *)
(***************************************************************************)
Whitespace == {" ", "\t", "\n", "\r"}

CharAt(s, i) == SubSeq(s, i, i)

\* needle in hay
Contains(hay, needle) ==
    \E i \in 1..(Len(hay) - Len(needle) + 1) :
        SubSeq(hay, i, i + Len(needle) - 1) = needle

\* s.startswith(p)
StartsWith(s, p) == Len(s) >= Len(p) /\ SubSeq(s, 1, Len(p)) = p

\* s.endswith(p)
EndsWith(s, p) == Len(s) >= Len(p) /\ SubSeq(s, Len(s) - Len(p) + 1, Len(s)) = p

RECURSIVE LStrip(_)
LStrip(s) ==
    IF Len(s) > 0 /\ CharAt(s, 1) \in Whitespace
    THEN LStrip(SubSeq(s, 2, Len(s)))
    ELSE s

RECURSIVE RStrip(_)
RStrip(s) ==
    IF Len(s) > 0 /\ CharAt(s, Len(s)) \in Whitespace
    THEN RStrip(SubSeq(s, 1, Len(s) - 1))
    ELSE s

\* s.strip()
Strip(s) == RStrip(LStrip(s))

UpperCase == "ABCDEFGHIJKLMNOPQRSTUVWXYZ"
LowerCase == "abcdefghijklmnopqrstuvwxyz"

LowerChar(c) ==
    IF \E i \in 1..Len(UpperCase) : CharAt(UpperCase, i) = c
    THEN CharAt(LowerCase, CHOOSE i \in 1..Len(UpperCase) : CharAt(UpperCase, i) = c)
    ELSE c

\* s.lower()
RECURSIVE Lower(_)
Lower(s) ==
    IF Len(s) = 0 THEN ""
    ELSE LowerChar(CharAt(s, 1)) \o Lower(SubSeq(s, 2, Len(s)))

\* the length of the leading run of non-whitespace characters
RECURSIVE TokenLen(_)
TokenLen(s) ==
    IF Len(s) = 0 \/ CharAt(s, 1) \in Whitespace THEN 0
    ELSE 1 + TokenLen(SubSeq(s, 2, Len(s)))

\* s.split()[0], for a string holding at least one token
SplitFirst(s) == LET t == LStrip(s) IN SubSeq(t, 1, TokenLen(t))

\* the length of the first line of s, its newline included
RECURSIVE LineLen(_)
LineLen(s) ==
    IF Len(s) = 0 THEN 0
    ELSE IF CharAt(s, 1) = "\n" THEN 1
    ELSE 1 + LineLen(SubSeq(s, 2, Len(s)))

\* the lines a text file yields when iterated (each keeps its newline)
RECURSIVE Lines(_)
Lines(s) ==
    IF Len(s) = 0 THEN <<>>
    ELSE LET n == LineLen(s)
         IN <<SubSeq(s, 1, n)>> \o Lines(SubSeq(s, n + 1, Len(s)))

\* s.rfind("."), counted from 1; 0 when there is no dot
RECURSIVE RFindDot(_)
RFindDot(s) ==
    IF Len(s) = 0 THEN 0
    ELSE IF CharAt(s, Len(s)) = "." THEN Len(s)
    ELSE RFindDot(SubSeq(s, 1, Len(s) - 1))

(***************************************************************************)
(* pathlib: a path is the sequence of its components.                      *)
(***************************************************************************)
PathName(p) == p[Len(p)]

\* PurePath.suffix
Suffix(p) ==
    LET name == PathName(p)
        i == RFindDot(name)
    IN IF 1 < i /\ i < Len(name) THEN SubSeq(name, i, Len(name)) ELSE ""

\* PurePath.stem
Stem(p) ==
    LET name == PathName(p)
        i == RFindDot(name)
    IN IF 1 < i /\ i < Len(name) THEN SubSeq(name, 1, i - 1) ELSE name

RECURSIVE JoinPath(_)
JoinPath(p) ==
    IF Len(p) = 0 THEN "."
    ELSE IF Len(p) = 1 THEN p[1]
    ELSE p[1] \o "/" \o JoinPath(Tail(p))

\* str(p.relative_to(root)), for p under root
RelativeTo(p, root) == JoinPath(SubSeq(p, Len(root) + 1, Len(p)))

(***************************************************************************)
(* Python dict: an association list in insertion order.                    *)
(***************************************************************************)
EmptyDict == <<>>

Keys(d) == {d[i].k : i \in 1..Len(d)}

Get(d, key) == d[CHOOSE i \in 1..Len(d) : d[i].k = key].v

\* d[key] = value: a new key goes last, a known key keeps its place
DictSet(d, key, value) ==
    IF key \in Keys(d)
    THEN [i \in 1..Len(d) |-> IF d[i].k = key THEN [k |-> key, v |-> value] ELSE d[i]]
    ELSE Append(d, [k |-> key, v |-> value])

\* what yaml.dump keeps of a mapping: its keys are sorted, insertion order is lost
AsMapping(d) == [key \in Keys(d) |-> Get(d, key)]

(***************************************************************************)
(* The syntax trees ast.parse returns, as far as the passes look at them.  *)
(* A file's nodes are listed in ast.walk order.                            *)
(***************************************************************************)
Name(id) == [kind |-> "Name", id |-> id, value |-> "", attr |-> ""]
Attribute(value, attr) == [kind |-> "Attribute", id |-> "", value |-> value, attr |-> attr]
Constant(value) == [kind |-> "Constant", id |-> "", value |-> value, attr |-> ""]

\* ast.unparse of a name or a dotted attribute
Unparse(e) == IF e.kind = "Attribute" THEN e.value \o "." \o e.attr
              ELSE IF e.kind = "Name" THEN e.id
              ELSE e.value

AnnAssign(target, annotation) == [kind |-> "AnnAssign", target |-> target, annotation |-> annotation]
Assign(target) == [kind |-> "Assign", target |-> target, annotation |-> Name("")]

Call(func, args) == [call |-> TRUE, func |-> func, args |-> args]
Bare(func) == [call |-> FALSE, func |-> func, args |-> <<>>]

ClassDef(name, bases, body) ==
    [kind |-> "ClassDef", name |-> name, bases |-> bases, body |-> body, decorator_list |-> <<>>]
FunctionDef(name, decorator_list) ==
    [kind |-> "FunctionDef", name |-> name, bases |-> <<>>, body |-> <<>>, decorator_list |-> decorator_list]

(***************************************************************************)
(* Entries of the file tree.  path is relative to the project root;        *)
(* openable: open() succeeds; readable: read() decodes the bytes;          *)
(* ast: what ast.parse makes of the text; json: what json.load makes of it.*)
(***************************************************************************)
NoAst == [ok |-> FALSE, nodes |-> <<>>]
NoJson == [ok |-> FALSE, data |-> EmptyDict]

File(path, openable, readable, text, ast, json) ==
    [path |-> path, openable |-> openable, readable |-> readable,
     text |-> text, ast |-> ast, json |-> json]

PyFile(path, nodes) == File(path, TRUE, TRUE, "", [ok |-> TRUE, nodes |-> nodes], NoJson)
TextFile(path, text) == File(path, TRUE, TRUE, text, NoAst, NoJson)
JsonFile(path, data) == File(path, TRUE, TRUE, "", NoAst, [ok |-> TRUE, data |-> data])
\* readable text that is not valid Python and not valid JSON
InvalidSyntax(path) == File(path, TRUE, TRUE, "def (:", NoAst, NoJson)
\* bytes that do not decode: read() raises
Undecodable(path) == File(path, TRUE, FALSE, "", NoAst, NoJson)
\* open() raises (no permission, a directory of that name, a dangling link)
Unopenable(path) == File(path, FALSE, FALSE, "", NoAst, NoJson)

project_path == <<"work", "proj">>

(***************************************************************************)
(* Path.glob.  A pattern "**/dir/name" is [dir, name]; dir is "" when the  *)
(* pattern is "**/name"; name may start with "*".                          *)
(***************************************************************************)
Pattern(dir, name) == [dir |-> dir, name |-> name]

Matches(pat, rel) ==
    /\ IF StartsWith(pat.name, "*")
       THEN EndsWith(PathName(rel), SubSeq(pat.name, 2, Len(pat.name)))
       ELSE PathName(rel) = pat.name
    /\ pat.dir # "" => (Len(rel) >= 2 /\ rel[Len(rel) - 1] = pat.dir)

\* the entries of t matching pat, in traversal order, as absolute paths
RECURSIVE Glob(_, _)
Glob(t, pat) ==
    IF t = <<>> THEN <<>>
    ELSE (IF Matches(pat, Head(t).path) THEN <<project_path \o Head(t).path>> ELSE <<>>)
         \o Glob(Tail(t), pat)

\* for pattern in patterns: found.extend(glob(pattern))
RECURSIVE GlobAll(_, _)
GlobAll(t, patterns) ==
    IF patterns = <<>> THEN <<>>
    ELSE Glob(t, Head(patterns)) \o GlobAll(t, Tail(patterns))

Exists(t, p) == \E i \in 1..Len(t) : project_path \o t[i].path = p

Entry(t, p) == t[CHOOSE i \in 1..Len(t) : project_path \o t[i].path = p]

(***************************************************************************)
(* ProjectAnalyzer.__init__                                                *)
(***************************************************************************)
\* init leaving routes to the class: the list is shared by every object
init_shared_routes(obj) ==
    [obj EXCEPT !.db_schemas = EmptyDict, !.api_specs = EmptyDict,
                !.frontend_components = EmptyDict, !.dependencies = EmptyDict]

\* __init__ assigns every field of the object it is given
init(obj) ==
    [obj EXCEPT !.db_schemas = EmptyDict, !.api_specs = EmptyDict,
                !.frontend_components = EmptyDict, !.dependencies = EmptyDict,
                !.routes = <<>>]

\* the attributes an object has before __init__ runs
Allocated ==
    [db_schemas |-> EmptyDict, api_specs |-> EmptyDict, frontend_components |-> EmptyDict,
     dependencies |-> EmptyDict, routes |-> <<>>]

NewAnalyzer == init(Allocated)

\* the outcome of a call: the fields it leaves, and whether it raised
Returned(s) == [self |-> s, raised |-> FALSE]
Raised(s) == [self |-> s, raised |-> TRUE]

(***************************************************************************)
(* _find_database_schemas                                                  *)
(***************************************************************************)
model_patterns ==
    <<Pattern("", "models.py"), Pattern("models", "*.py"), Pattern("", "schemas.py"),
      Pattern("schemas", "*.py"), Pattern("migrations", "*.py")>>

IsModelClass(node) ==
    /\ node.kind = "ClassDef"
    /\ \E i \in 1..Len(node.bases) :
          node.bases[i].kind = "Name" /\ node.bases[i].id \in {"Model", "BaseModel"}

\* child.target.id raises for a target that is not a plain name
FieldsRaise(node) ==
    \E i \in 1..Len(node.body) :
        node.body[i].kind = "AnnAssign" /\ node.body[i].target.kind # "Name"

RECURSIVE Fields(_)
Fields(body) ==
    IF body = <<>> THEN <<>>
    ELSE (IF Head(body).kind = "AnnAssign"
          THEN <<[name |-> Head(body).target.id, type |-> Unparse(Head(body).annotation)]>>
          ELSE <<>>)
         \o Fields(Tail(body))

\* the walk over one parsed file; an exception ends it and keeps what was recorded
RECURSIVE WalkClasses(_, _, _)
WalkClasses(nodes, schemas, file) ==
    IF nodes = <<>> THEN schemas
    ELSE IF ~IsModelClass(Head(nodes)) THEN WalkClasses(Tail(nodes), schemas, file)
    ELSE IF FieldsRaise(Head(nodes)) THEN schemas
    ELSE WalkClasses(Tail(nodes),
                     DictSet(schemas, Head(nodes).name,
                             [fields |-> Fields(Head(nodes).body), file |-> file]),
                     file)

\* SchemaFile with the parse outside the try: a file that does not parse raises
SchemaFileNoTry(schemas, f) ==
    IF ~f.openable \/ ~f.readable \/ ~f.ast.ok THEN [v |-> schemas, raised |-> TRUE]
    ELSE [v |-> WalkClasses(f.ast.nodes, schemas, RelativeTo(project_path \o f.path, project_path)),
          raised |-> FALSE]

\* one iteration of the loop over models: open() is outside the try
SchemaFile(schemas, f) ==
    IF ~f.openable THEN [v |-> schemas, raised |-> TRUE]
    ELSE IF ~f.readable \/ ~f.ast.ok THEN [v |-> schemas, raised |-> FALSE]
    ELSE [v |-> WalkClasses(f.ast.nodes, schemas, RelativeTo(project_path \o f.path, project_path)),
          raised |-> FALSE]

RECURSIVE SchemaFiles(_, _, _)
SchemaFiles(t, files, schemas) ==
    IF files = <<>> THEN [v |-> schemas, raised |-> FALSE]
    ELSE LET r == SchemaFile(schemas, Entry(t, Head(files)))
         IN IF r.raised THEN r ELSE SchemaFiles(t, Tail(files), r.v)

find_database_schemas(s, t) ==
    LET r == SchemaFiles(t, GlobAll(t, model_patterns), s.db_schemas)
    IN [self |-> [s EXCEPT !.db_schemas = r.v], raised |-> r.raised]

(***************************************************************************)
(* _find_api_endpoints                                                     *)
(***************************************************************************)
api_patterns ==
    <<Pattern("", "routes.py"), Pattern("routes", "*.py"), Pattern("", "views.py"),
      Pattern("views", "*.py"), Pattern("", "controllers.py"), Pattern("controllers", "*.py")>>

route_names == {"route", "get", "post", "put", "delete"}

\* the decorator is a call whose callee's text contains one of the names
IsRouteDecorator(d) ==
    d.call /\ \E name \in route_names : Contains(Unparse(d.func), name)

\* ast.literal_eval(decorator.args[0]) raises for anything but a literal
RouteRaises(d) == d.args # <<>> /\ d.args[1].kind # "Constant"

RouteOf(d) == IF d.args # <<>> THEN d.args[1].value ELSE "/"

\* decorator.func.attr if hasattr(decorator.func, 'attr') else 'GET'
MethodOf(d) == IF d.func.kind = "Attribute" THEN d.func.attr ELSE "GET"

EndpointKey(d) == MethodOf(d) \o " " \o RouteOf(d)

\* the loop over one function's decorators; ok is FALSE once an exception is raised
RECURSIVE WalkDecorators(_, _, _, _)
WalkDecorators(decs, specs, fname, file) ==
    IF decs = <<>> THEN [v |-> specs, ok |-> TRUE]
    ELSE IF ~IsRouteDecorator(Head(decs)) THEN WalkDecorators(Tail(decs), specs, fname, file)
    ELSE IF RouteRaises(Head(decs)) THEN [v |-> specs, ok |-> FALSE]
    ELSE WalkDecorators(Tail(decs),
                        DictSet(specs, EndpointKey(Head(decs)),
                                [function |-> fname, file |-> file]),
                        fname, file)

RECURSIVE WalkFunctions(_, _, _)
WalkFunctions(nodes, specs, file) ==
    IF nodes = <<>> THEN specs
    ELSE IF Head(nodes).kind # "FunctionDef" THEN WalkFunctions(Tail(nodes), specs, file)
    ELSE LET r == WalkDecorators(Head(nodes).decorator_list, specs, Head(nodes).name, file)
         IN IF r.ok THEN WalkFunctions(Tail(nodes), r.v, file) ELSE r.v

\* one iteration of the loop over endpoints: open() is outside the try
EndpointFile(specs, f) ==
    IF ~f.openable THEN [v |-> specs, raised |-> TRUE]
    ELSE IF ~f.readable \/ ~f.ast.ok THEN [v |-> specs, raised |-> FALSE]
    ELSE [v |-> WalkFunctions(f.ast.nodes, specs, RelativeTo(project_path \o f.path, project_path)),
          raised |-> FALSE]

RECURSIVE EndpointFiles(_, _, _)
EndpointFiles(t, files, specs) ==
    IF files = <<>> THEN [v |-> specs, raised |-> FALSE]
    ELSE LET r == EndpointFile(specs, Entry(t, Head(files)))
         IN IF r.raised THEN r ELSE EndpointFiles(t, Tail(files), r.v)

\* find_api_endpoints storing into the record of the pass it was copied from
find_api_endpoints_into_schemas(s, t) ==
    LET r == EndpointFiles(t, GlobAll(t, api_patterns), s.db_schemas)
    IN [self |-> [s EXCEPT !.db_schemas = r.v], raised |-> r.raised]

find_api_endpoints(s, t) ==
    LET r == EndpointFiles(t, GlobAll(t, api_patterns), s.api_specs)
    IN [self |-> [s EXCEPT !.api_specs = r.v], raised |-> r.raised]

(***************************************************************************)
(* _find_frontend_components                                               *)
(***************************************************************************)
frontend_patterns ==
    <<Pattern("", "*.tsx"), Pattern("", "*.jsx"), Pattern("", "*.vue"),
      Pattern("", "routes.ts"), Pattern("", "router.ts")>>

Component(file) == [type |-> "component", file |-> file]

IsReactComponent(content) == Contains(content, "export default") \/ Contains(content, "React.FC")

IsRouterFile(content) == Contains(content, "Route") \/ Contains(content, "Routes")

\* the body of the try for a .tsx or .jsx file whose text was read
ReactFile(s, p, content) ==
    IF IsReactComponent(content)
    THEN LET file == RelativeTo(p, project_path)
             c == DictSet(s.frontend_components, Stem(p), Component(file))
         IN IF IsRouterFile(content)
            THEN [s EXCEPT !.frontend_components = c, !.routes = Append(s.routes, file)]
            ELSE [s EXCEPT !.frontend_components = c]
    ELSE s

\* the body of the try for a .vue file whose text was read
VueFile(s, p, content) ==
    IF Contains(content, "<template>")
    THEN [s EXCEPT !.frontend_components =
                      DictSet(s.frontend_components, Stem(p), Component(RelativeTo(p, project_path)))]
    ELSE s

\* one iteration of the loop over components: open() is outside the try
ComponentFile(s, p, f) ==
    IF Suffix(p) \in {".tsx", ".jsx"}
    THEN IF ~f.openable THEN Raised(s)
         ELSE IF ~f.readable THEN Returned(s)
         ELSE Returned(ReactFile(s, p, f.text))
    ELSE IF Suffix(p) = ".vue"
    THEN IF ~f.openable THEN Raised(s)
         ELSE IF ~f.readable THEN Returned(s)
         ELSE Returned(VueFile(s, p, f.text))
    ELSE Returned(s)

RECURSIVE ComponentFiles(_, _, _)
ComponentFiles(t, files, s) ==
    IF files = <<>> THEN Returned(s)
    ELSE LET r == ComponentFile(s, Head(files), Entry(t, Head(files)))
         IN IF r.raised THEN r ELSE ComponentFiles(t, Tail(files), r.self)

find_frontend_components(s, t) == ComponentFiles(t, GlobAll(t, frontend_patterns), s)

(***************************************************************************)
(* _find_dependencies                                                      *)
(***************************************************************************)
\* package_files with the lock file before pyproject.toml
package_files_lock_first == <<"package.json", "requirements.txt", "poetry.lock", "pyproject.toml">>

package_files == <<"package.json", "requirements.txt", "pyproject.toml", "poetry.lock">>

\* data.get(key, {})
GetOr(data, key) == IF key \in Keys(data) THEN Get(data, key) ELSE EmptyDict

\* [line.strip() for line in f if line.strip() and not line.startswith("#")]
RECURSIVE Requirements(_)
Requirements(lines) ==
    IF lines = <<>> THEN <<>>
    ELSE (IF Strip(Head(lines)) # "" /\ ~StartsWith(Head(lines), "#")
          THEN <<Strip(Head(lines))>>
          ELSE <<>>)
         \o Requirements(Tail(lines))

\* one iteration of the loop over package_files, for a file that exists
DependencyFile(deps, file, f) ==
    IF ~f.openable THEN [v |-> deps, raised |-> TRUE]
    ELSE IF file = "package.json"
    THEN IF ~f.readable \/ ~f.json.ok THEN [v |-> deps, raised |-> FALSE]
         ELSE [v |-> DictSet(deps, "npm",
                             [dependencies |-> GetOr(f.json.data, "dependencies"),
                              devDependencies |-> GetOr(f.json.data, "devDependencies")]),
               raised |-> FALSE]
    ELSE IF file = "requirements.txt"
    THEN IF ~f.readable THEN [v |-> deps, raised |-> FALSE]
         ELSE [v |-> DictSet(deps, "pip", [dependencies |-> Requirements(Lines(f.text))]),
               raised |-> FALSE]
    ELSE IF file \in {"pyproject.toml", "poetry.lock"}
    THEN IF ~f.readable THEN [v |-> deps, raised |-> FALSE]
         ELSE [v |-> DictSet(deps, "poetry", [file |-> file, content |-> f.text]),
               raised |-> FALSE]
    ELSE [v |-> deps, raised |-> FALSE]

RECURSIVE DependencyFiles(_, _, _)
DependencyFiles(t, files, deps) ==
    IF files = <<>> THEN [v |-> deps, raised |-> FALSE]
    ELSE LET dep_file == project_path \o <<Head(files)>>
         IN IF ~Exists(t, dep_file) THEN DependencyFiles(t, Tail(files), deps)
            ELSE LET r == DependencyFile(deps, Head(files), Entry(t, dep_file))
                 IN IF r.raised THEN r ELSE DependencyFiles(t, Tail(files), r.v)

find_dependencies(s, t) ==
    LET r == DependencyFiles(t, package_files, s.dependencies)
    IN [self |-> [s EXCEPT !.dependencies = r.v], raised |-> r.raised]

(***************************************************************************)
(* _generate_blueprint                                                     *)
(***************************************************************************)
\* yaml.dump(value): YAML text, which determines the value dumped
YamlDump(value) == [yaml |-> value]

\* the npm payload's two mappings come out of yaml.dump with sorted keys too
DumpPayload(key, v) ==
    IF key = "npm"
    THEN [dependencies |-> AsMapping(v.dependencies), devDependencies |-> AsMapping(v.devDependencies)]
    ELSE v

DumpDependencies(d) == [key \in Keys(d) |-> DumpPayload(key, Get(d, key))]

\* one entry of "paths": under the endpoint key, a mapping with the one key
\* endpoint.split()[0].lower()
PathItem(endpoint, spec) ==
    [k |-> endpoint,
     v |-> <<[k |-> Lower(SplitFirst(endpoint)),
              v |-> [summary |-> spec.function, operationId |-> spec.function,
                     responses |-> <<[k |-> "200",
                                      v |-> [description |-> "Successful response"]]>>]]>>]

\* the comprehension over api_specs.items(): its keys are distinct, so the order is kept
Paths(specs) == [i \in 1..Len(specs) |-> PathItem(specs[i].k, specs[i].v)]

Item(key, type, content) == [k |-> key, v |-> [type |-> type, content |-> content]]

\* generate_blueprint tagging the openapi fragment as the other four
generate_blueprint_all_yaml(s) ==
    <<Item("pm.details", "yaml",
           YamlDump([project_path |-> "/" \o JoinPath(project_path),
                     analyzed_at |-> "auto-generated from existing project"])),
      Item("db.schemas", "yaml", YamlDump(AsMapping(s.db_schemas))),
      Item("backend.specifications.openapi", "yaml",
           [openapi |-> "3.0.0",
            info |-> [title |-> PathName(project_path) \o " API", version |-> "1.0.0"],
            paths |-> Paths(s.api_specs)]),
      Item("uxsitemap.structure", "yaml",
           YamlDump([routes |-> s.routes, components |-> AsMapping(s.frontend_components)])),
      Item("settings.config.package", "yaml", YamlDump(DumpDependencies(s.dependencies)))>>

generate_blueprint(s) ==
    <<Item("pm.details", "yaml",
           YamlDump([project_path |-> "/" \o JoinPath(project_path),
                     analyzed_at |-> "auto-generated from existing project"])),
      Item("db.schemas", "yaml", YamlDump(AsMapping(s.db_schemas))),
      Item("backend.specifications.openapi", "complex",
           [openapi |-> "3.0.0",
            info |-> [title |-> PathName(project_path) \o " API", version |-> "1.0.0"],
            paths |-> Paths(s.api_specs)]),
      Item("uxsitemap.structure", "yaml",
           YamlDump([routes |-> s.routes, components |-> AsMapping(s.frontend_components)])),
      Item("settings.config.package", "yaml", YamlDump(DumpDependencies(s.dependencies)))>>

(***************************************************************************)
(* analyze: the four passes in the source's order, then the blueprint.     *)
(* An exception in a pass ends the call; nothing is returned.              *)
(***************************************************************************)
NoDocument == <<>>

analyze(s, t) ==
    LET a == find_database_schemas(s, t)
        b == find_api_endpoints(a.self, t)
        c == find_frontend_components(b.self, t)
        d == find_dependencies(c.self, t)
    IN IF a.raised THEN [self |-> a.self, raised |-> TRUE, doc |-> NoDocument]
       ELSE IF b.raised THEN [self |-> b.self, raised |-> TRUE, doc |-> NoDocument]
       ELSE IF c.raised THEN [self |-> c.self, raised |-> TRUE, doc |-> NoDocument]
       ELSE IF d.raised THEN [self |-> d.self, raised |-> TRUE, doc |-> NoDocument]
       ELSE [self |-> d.self, raised |-> FALSE, doc |-> generate_blueprint(d.self)]

(***************************************************************************)
(* File trees explored.                                                    *)
(***************************************************************************)
models_py ==
    PyFile(<<"app", "models.py">>,
           <<ClassDef("User", <<Name("Model")>>,
                      <<AnnAssign(Name("name"), Name("str")), Assign(Name("count"))>>),
             ClassDef("Helper", <<Name("object")>>, <<AnnAssign(Name("n"), Name("int"))>>),
             ClassDef("Account", <<Attribute("db", "Model")>>, <<>>)>>)

schemas_py ==
    PyFile(<<"app", "schemas.py">>,
           <<ClassDef("Item", <<Name("Base"), Name("BaseModel")>>,
                      <<AnnAssign(Name("id"), Name("int"))>>),
             ClassDef("User", <<Name("BaseModel")>>, <<AnnAssign(Name("email"), Name("str"))>>)>>)

odd_py ==
    PyFile(<<"app", "models", "odd.py">>,
           <<ClassDef("Early", <<Name("Model")>>, <<>>),
             ClassDef("Odd", <<Name("Model")>>,
                      <<AnnAssign(Name("a"), Name("int")),
                        AnnAssign(Attribute("self", "x"), Name("int"))>>),
             ClassDef("Late", <<Name("Model")>>, <<>>)>>)

broken_model_py == InvalidSyntax(<<"app", "models", "broken.py">>)
legacy_py == Undecodable(<<"schemas", "legacy.py">>)
locked_py == Unopenable(<<"migrations", "0001.py">>)

ModelLib == {models_py, schemas_py, odd_py, broken_model_py, legacy_py, locked_py}

routes_py ==
    PyFile(<<"app", "routes.py">>,
           <<FunctionDef("list_users", <<Call(Attribute("app", "get"), <<Constant("/users")>>)>>),
             FunctionDef("create_user",
                         <<Bare(Name("login_required")),
                           Call(Attribute("app", "post"), <<Constant("/users")>>)>>)>>)

views_py ==
    PyFile(<<"views.py">>,
           <<FunctionDef("index", <<Call(Name("get"), <<>>)>>),
             FunctionDef("cached", <<Call(Name("lru_cache"), <<Constant("128")>>)>>),
             FunctionDef("aim", <<Call(Name("target"), <<Constant("/t")>>)>>),
             ClassDef("View", <<Name("Model")>>, <<>>)>>)

user_controller_py ==
    PyFile(<<"api", "controllers", "user.py">>,
           <<FunctionDef("show", <<Call(Attribute("router", "route"), <<Constant("/users")>>)>>),
             FunctionDef("edit", <<Call(Attribute("router", "put"), <<Name("USER_PATH")>>)>>),
             FunctionDef("drop", <<Call(Attribute("router", "delete"), <<Constant("/users")>>)>>)>>)

broken_view_py == InvalidSyntax(<<"app", "views", "broken.py">>)
locked_controllers_py == Unopenable(<<"controllers.py">>)

EndpointLib == {routes_py, views_py, user_controller_py, broken_view_py, locked_controllers_py}

app_tsx == TextFile(<<"src", "App.tsx">>, "export default function App() { return <Routes/> }")
router_jsx == TextFile(<<"src", "Router.jsx">>, "export const r = <Route path='/'/>")
button_tsx == TextFile(<<"src", "ui", "Button.tsx">>, "const Button: React.FC = () => null")
page_vue == TextFile(<<"src", "Page.vue">>, "<template><Route/></template>")
routes_ts == TextFile(<<"src", "routes.ts">>, "export default [Route]")
blob_jsx == Undecodable(<<"src", "Blob.jsx">>)
locked_tsx == Unopenable(<<"src", "Locked.tsx">>)

FrontendLib == {app_tsx, router_jsx, button_tsx, page_vue, routes_ts, blob_jsx, locked_tsx}

package_json ==
    JsonFile(<<"package.json">>,
             <<[k |-> "name", v |-> <<>>],
               [k |-> "dependencies", v |-> <<[k |-> "x", v |-> "1.0"]>>]>>)
broken_package_json == InvalidSyntax(<<"package.json">>)
requirements_txt ==
    TextFile(<<"requirements.txt">>, "flask==2.0\n  # pinned below\n# top\n\n  requests \n \t\nrich")
pyproject_toml == TextFile(<<"pyproject.toml">>, "[tool.poetry]")
undecodable_pyproject == Undecodable(<<"pyproject.toml">>)
poetry_lock == TextFile(<<"poetry.lock">>, "[[package]]")
undecodable_lock == Undecodable(<<"poetry.lock">>)
locked_lock == Unopenable(<<"poetry.lock">>)

DependencyLib ==
    {package_json, broken_package_json, requirements_txt, pyproject_toml,
     undecodable_pyproject, poetry_lock, undecodable_lock, locked_lock}

readme_md == TextFile(<<"README.md">>, "export default Route")

MixedLib ==
    {models_py, broken_model_py, locked_py, routes_py, app_tsx, router_jsx,
     requirements_txt, poetry_lock, readme_md}

\* the trees of at most n entries of lib, in every traversal order, no path twice
Trees(lib, n) ==
    {t \in UNION {[1..k -> lib] : k \in 0..n} :
        \A i, j \in 1..Len(t) : t[i].path = t[j].path => i = j}

(***************************************************************************)
(* The state machine.  One analyzer object is live at a time; tree is the  *)
(* unmodified file tree; inst counts the objects constructed, ncalls the   *)
(* analyze() calls on the live one, done the passes called on it directly, *)
(* in call order;                                                          *)
(* last is the outcome of the latest call and history that of every        *)
(* analyze() call.                                                         *)
(***************************************************************************)
PassNames ==
    {"_find_database_schemas", "_find_api_endpoints",
     "_find_frontend_components", "_find_dependencies"}

Outcome(op, raised, doc) == [op |-> op, raised |-> raised, doc |-> doc]

InitWith(trees) ==
    /\ tree \in trees
    /\ self = NewAnalyzer
    /\ inst = 1
    /\ ncalls = 0
    /\ done = <<>>
    /\ last = Outcome("__init__", FALSE, NoDocument)
    /\ history = <<>>

Init == InitWith(Trees(MixedLib, MaxMixed))
InitSchemas == InitWith(Trees(ModelLib, MaxFiles))
InitEndpoints == InitWith(Trees(EndpointLib, MaxFiles))
InitFrontend == InitWith(Trees(FrontendLib, MaxFiles))
InitDependencies == InitWith(Trees(DependencyLib, MaxFiles))

\* ProjectAnalyzer(project_path): a new object, once the live one has analysed
Construct ==
    /\ inst < MaxInstances
    /\ ncalls >= 1
    /\ self' = init(self)
    /\ inst' = inst + 1
    /\ ncalls' = 0
    /\ done' = <<>>
    /\ last' = Outcome("__init__", FALSE, NoDocument)
    /\ UNCHANGED <<tree, history>>

\* analyzer.analyze()
Analyze ==
    /\ ncalls < MaxCalls
    /\ done = <<>>
    /\ LET r == analyze(self, tree)
       IN /\ self' = r.self
          /\ last' = Outcome("analyze", r.raised, r.doc)
          /\ history' = Append(history, [inst |-> inst, call |-> ncalls + 1,
                                         raised |-> r.raised, doc |-> r.doc])
    /\ ncalls' = ncalls + 1
    /\ UNCHANGED <<tree, inst, done>>

\* a pass called directly on the first object, at most once and before any
\* analyze()
CallPass(op, r) ==
    /\ inst = 1
    /\ ncalls = 0
    /\ \A i \in 1..Len(done) : done[i].op # op
    /\ self' = r.self
    /\ done' = Append(done, [op |-> op, raised |-> r.raised])
    /\ last' = Outcome(op, r.raised, NoDocument)
    /\ UNCHANGED <<tree, inst, ncalls, history>>

FindDatabaseSchemas == CallPass("_find_database_schemas", find_database_schemas(self, tree))
FindApiEndpoints == CallPass("_find_api_endpoints", find_api_endpoints(self, tree))
FindFrontendComponents == CallPass("_find_frontend_components", find_frontend_components(self, tree))
FindDependencies == CallPass("_find_dependencies", find_dependencies(self, tree))

\* analyzer._generate_blueprint() called directly
GenerateBlueprint ==
    /\ ncalls = 0
    /\ last.op # "_generate_blueprint"
    /\ last' = Outcome("_generate_blueprint", FALSE, generate_blueprint(self))
    /\ UNCHANGED <<tree, self, inst, ncalls, done, history>>

Next ==
    \/ Construct
    \/ Analyze
    \/ FindDatabaseSchemas
    \/ FindApiEndpoints
    \/ FindFrontendComponents
    \/ FindDependencies
    \/ GenerateBlueprint

Spec == Init /\ [][Next]_vars
SpecSchemas == InitSchemas /\ [][Next]_vars
SpecEndpoints == InitEndpoints /\ [][Next]_vars
SpecFrontend == InitFrontend /\ [][Next]_vars
SpecDependencies == InitDependencies /\ [][Next]_vars

(***************************************************************************)
(* Properties.                                                             *)
(***************************************************************************)
\* the entries of t that the patterns match
Matched(t, patterns) ==
    {t[i] : i \in {j \in 1..Len(t) : \E k \in 1..Len(patterns) : Matches(patterns[k], t[j].path)}}

RelPath(f) == RelativeTo(project_path \o f.path, project_path)

Range(q) == {q[i] : i \in 1..Len(q)}

\* C1: each of the four extraction passes returns normally for every file
\* tree: a candidate file that cannot be opened, read or parsed never makes
\* the pass raise.
C1_PassesNeverRaise == last.op \in PassNames => ~last.raised

IsInvalidSyntax(f) == f.openable /\ f.readable /\ ~f.ast.ok

\* a model file the pass processes to its end
IsValidModelFile(f) ==
    /\ f.openable /\ f.readable /\ f.ast.ok
    /\ \A i \in 1..Len(f.ast.nodes) : IsModelClass(f.ast.nodes[i]) => ~FieldsRaise(f.ast.nodes[i])

ModelClassNames(f) == {f.ast.nodes[i].name : i \in {j \in 1..Len(f.ast.nodes) : IsModelClass(f.ast.nodes[j])}}

RECURSIVE WithoutInvalidSyntax(_)
WithoutInvalidSyntax(t) ==
    IF t = <<>> THEN <<>>
    ELSE (IF IsInvalidSyntax(Head(t)) THEN <<>> ELSE <<Head(t)>>) \o WithoutInvalidSyntax(Tail(t))

\* C2: in the schema pass, a file with invalid syntax does not prevent any
\* valid sibling model file from being recorded, wherever it comes in the
\* traversal: the pass ends as it does on the tree without the invalid
\* files (same records, raising only where that one raises, which takes a
\* file that cannot be opened); when it returns, db_schemas has an entry for
\* every Model/BaseModel class of every valid file and none from an invalid
\* file.
C2_InvalidSyntaxSkipped ==
    last.op = "_find_database_schemas" =>
        /\ LET r == find_database_schemas(NewAnalyzer, WithoutInvalidSyntax(tree))
           IN self.db_schemas = r.self.db_schemas /\ last.raised = r.raised
        /\ last.raised => \E f \in Matched(tree, model_patterns) : ~f.openable
        /\ ~last.raised =>
              \A f \in Matched(tree, model_patterns) :
                  IsValidModelFile(f) => ModelClassNames(f) \subseteq Keys(self.db_schemas)
        /\ \A f \in Matched(tree, model_patterns) :
              IsInvalidSyntax(f) =>
                  \A i \in 1..Len(self.db_schemas) : self.db_schemas[i].v.file # RelPath(f)

\* an invalid file between two valid model files, all three visited
C2_Witness ==
    /\ last.op = "_find_database_schemas" /\ ~last.raised
    /\ Len(tree) = 3
    /\ IsValidModelFile(tree[1]) /\ IsInvalidSyntax(tree[2]) /\ IsValidModelFile(tree[3])
    /\ \A i \in 1..3 : tree[i] \in Matched(tree, model_patterns)
    /\ ModelClassNames(tree[1]) # {} /\ ModelClassNames(tree[3]) # {}
    /\ (ModelClassNames(tree[1]) \cup ModelClassNames(tree[3])) = Keys(self.db_schemas)

IsAppGetUsers(node) ==
    /\ node.kind = "FunctionDef"
    /\ \E i \in 1..Len(node.decorator_list) :
          node.decorator_list[i] = Call(Attribute("app", "get"), <<Constant("/users")>>)

\* C3: in the endpoint pass, a function decorated with @app.get("/users") in
\* a matched route file produces an endpoint record under the key
\* "GET /users" holding the function's name and the file's relative path.
C3_AppGetUsersKey ==
    (last.op = "_find_api_endpoints" /\ ~last.raised) =>
        \A f \in Matched(tree, api_patterns) :
            (f.openable /\ f.readable /\ f.ast.ok
             /\ \E i \in 1..Len(f.ast.nodes) : IsAppGetUsers(f.ast.nodes[i])) =>
                /\ "GET /users" \in Keys(self.api_specs)
                /\ \E g \in Matched(tree, api_patterns) : \E i \in 1..Len(g.ast.nodes) :
                      /\ IsAppGetUsers(g.ast.nodes[i])
                      /\ Get(self.api_specs, "GET /users") =
                            [function |-> g.ast.nodes[i].name, file |-> RelPath(g)]

\* C4: two runs of the extractor over the unmodified tree, each a newly
\* constructed ProjectAnalyzer followed by analyze(), end alike and return
\* identical blueprint documents.
C4_FreshRunsAgree ==
    \A i, j \in 1..Len(history) :
        (history[i].call = 1 /\ history[j].call = 1) =>
            /\ history[i].raised = history[j].raised
            /\ history[i].doc = history[j].doc

\* two objects have each returned a first document, with a route and a schema in it
C4_Witness ==
    \E i, j \in 1..Len(history) :
        /\ history[i].inst # history[j].inst
        /\ history[i].call = 1 /\ history[j].call = 1
        /\ ~history[i].raised /\ ~history[j].raised
        /\ history[j].doc[4].v.content.yaml.routes # <<>>
        /\ history[j].doc[2].v.content.yaml # <<>>

AllPassesReturned ==
    \A op \in PassNames : \E i \in 1..Len(done) : done[i] = [op |-> op, raised |-> FALSE]

\* what each pass may write
Writes(op) ==
    IF op = "_find_database_schemas" THEN {"db_schemas"}
    ELSE IF op = "_find_api_endpoints" THEN {"api_specs"}
    ELSE IF op = "_find_frontend_components" THEN {"frontend_components", "routes"}
    ELSE {"dependencies"}

\* the latest step was a direct call of a pass that left the other passes' records alone
PassFrame ==
    (done' # done) =>
        \A field \in DOMAIN self :
            field \notin Writes(done'[Len(done')].op) => self'[field] = self[field]

\* on an object whose four passes have been called in some order and have
\* returned, _generate_blueprint returns the document analyze() returns
PermutedDocument ==
    /\ (last.op = "_generate_blueprint" /\ AllPassesReturned) =>
          /\ ~analyze(NewAnalyzer, tree).raised
          /\ last.doc = analyze(NewAnalyzer, tree).doc
    /\ (\E i \in 1..Len(done) : done[i].raised) => analyze(NewAnalyzer, tree).raised

\* C5: the four passes are order-insensitive: each writes only its own
\* record and leaves the others unchanged, and running them in any
\* permutation before _generate_blueprint yields the document analyze()
\* yields.
C5_PassesOrderInsensitive == [][PassFrame]_vars /\ []PermutedDocument

\* the passes ran in the reverse of analyze()'s order and each recorded something
C5_Witness ==
    /\ last.op = "_generate_blueprint"
    /\ [i \in 1..Len(done) |-> done[i].op] =
          <<"_find_dependencies", "_find_frontend_components",
            "_find_api_endpoints", "_find_database_schemas">>
    /\ AllPassesReturned
    /\ last.doc = analyze(NewAnalyzer, tree).doc
    /\ self.routes # <<>> /\ self.db_schemas # <<>>

BlueprintKeys ==
    <<"pm.details", "db.schemas", "backend.specifications.openapi",
      "uxsitemap.structure", "settings.config.package">>

NoFileMatches(t) ==
    /\ Matched(t, model_patterns) = {}
    /\ Matched(t, api_patterns) = {}
    /\ Matched(t, frontend_patterns) = {}
    /\ \A i \in 1..Len(package_files) : ~Exists(t, project_path \o <<package_files[i]>>)

\* C6: the document analyze() returns has exactly the five top-level keys,
\* tagged complex for the openapi key and yaml for the other four; when no
\* file matches in any category the schema, dependency and component
\* payloads are empty mappings, the route list is empty and the openapi
\* paths mapping is empty.
C6_DocumentShape ==
    \A i \in 1..Len(history) :
        ~history[i].raised =>
            LET doc == history[i].doc
            IN /\ [n \in 1..Len(doc) |-> doc[n].k] = BlueprintKeys
               /\ \A n \in 1..Len(doc) :
                     doc[n].v.type = IF doc[n].k = "backend.specifications.openapi"
                                     THEN "complex" ELSE "yaml"
               /\ NoFileMatches(tree) =>
                     /\ Get(doc, "db.schemas").content = YamlDump(<<>>)
                     /\ Get(doc, "settings.config.package").content = YamlDump(<<>>)
                     /\ Get(doc, "uxsitemap.structure").content =
                           YamlDump([routes |-> <<>>, components |-> <<>>])
                     /\ Get(doc, "backend.specifications.openapi").content.paths = <<>>

\* analyze() has returned for a tree that holds a file and in which nothing matches
C6_Witness ==
    /\ last.op = "analyze" /\ ~last.raised
    /\ tree # <<>> /\ NoFileMatches(tree)
    /\ Len(last.doc) = 5

BothPoetryFilesExist ==
    /\ Exists(tree, project_path \o <<"pyproject.toml">>)
    /\ Exists(tree, project_path \o <<"poetry.lock">>)

LockFile == Entry(tree, project_path \o <<"poetry.lock">>)

LockRecordStored ==
    /\ "poetry" \in Keys(self.dependencies)
    /\ Get(self.dependencies, "poetry") = [file |-> "poetry.lock", content |-> LockFile.text]

\* C7 as stated: whenever both pyproject.toml and poetry.lock exist at the
\* root, the record under `poetry` after the dependency pass is the one for
\* poetry.lock.
C7_LockWinsWheneverBothExist ==
    (last.op = "_find_dependencies" /\ ~last.raised /\ BothPoetryFilesExist) => LockRecordStored

\* C7 amended: whenever both exist, the pass returns and poetry.lock is
\* opened and read without failure, the record under `poetry` is the one
\* for poetry.lock.
C7_LockWinsWhenRead ==
    (last.op = "_find_dependencies" /\ ~last.raised /\ BothPoetryFilesExist
     /\ LockFile.openable /\ LockFile.readable) => LockRecordStored

\* both files exist and were read, pyproject.toml before poetry.lock in the tree
C7_Witness ==
    /\ last.op = "_find_dependencies" /\ ~last.raised
    /\ Len(tree) >= 2 /\ tree[1] = pyproject_toml /\ tree[2] = poetry_lock
    /\ LockRecordStored

\* the lines the claim keeps: trimmed, non-empty, not starting with #
RECURSIVE ClaimedRequirements(_)
ClaimedRequirements(lines) ==
    IF lines = <<>> THEN <<>>
    ELSE (IF Strip(Head(lines)) # "" /\ ~StartsWith(Strip(Head(lines)), "#")
          THEN <<Strip(Head(lines))>>
          ELSE <<>>)
         \o ClaimedRequirements(Tail(lines))

\* C8: the sequence stored under `pip` is the file's lines in file order,
\* each trimmed, keeping only non-empty lines that do not start with #: no
\* stored entry is empty and no stored entry starts with #.
C8_PipEntries ==
    (/\ last.op = "_find_dependencies" /\ ~last.raised
     /\ Exists(tree, project_path \o <<"requirements.txt">>)
     /\ Entry(tree, project_path \o <<"requirements.txt">>).readable) =>
        /\ "pip" \in Keys(self.dependencies)
        /\ LET stored == Get(self.dependencies, "pip").dependencies
           IN /\ stored = ClaimedRequirements(Lines(Entry(tree, project_path \o <<"requirements.txt">>).text))
              /\ \A i \in 1..Len(stored) : stored[i] # "" /\ ~StartsWith(stored[i], "#")

\* C9: in the frontend pass, the relative path of every readable .tsx or
\* .jsx file whose text contains Route is appended to the route list,
\* whether or not the file is classified as a component; a file with both
\* `export default` and `Routes` is a component and in the route list.
C9_RouteFilesListed ==
    (last.op = "_find_frontend_components" /\ ~last.raised) =>
        \A f \in Matched(tree, frontend_patterns) :
            (/\ Suffix(f.path) \in {".tsx", ".jsx"}
             /\ f.openable /\ f.readable
             /\ Contains(f.text, "Route")) =>
                /\ RelPath(f) \in Range(self.routes)
                /\ (Contains(f.text, "export default") /\ Contains(f.text, "Routes")) =>
                      Stem(f.path) \in Keys(self.frontend_components)

\* C10: after any number of analyze() calls on the same object over the
\* unmodified tree, the route list holds each router file path at most once
\* and every call returns the document the first call returned.
C10_RepeatedAnalyze ==
    /\ \A i, j \in 1..Len(self.routes) : self.routes[i] = self.routes[j] => i = j
    /\ \A i, j \in 1..Len(history) :
          (history[i].inst = history[j].inst /\ ~history[i].raised /\ ~history[j].raised) =>
              history[i].doc = history[j].doc

====
